---- MODULE Spec2Model ----
(***************************************************************************)
(* CompHub server (server.js): the task store persisted in data/tasks.json *)
(* and the activity log persisted in data/activity.json, with one action   *)
(* per Express route handler.  Every handler is synchronous (readFileSync, *)
(* writeFileSync, no await), so a handler is one atomic step.              *)
(*                                                                         *)
(* Task records and request bodies are functions from field names to       *)
(* values, because the update handler spreads an arbitrary request body    *)
(* over the stored record.  Timestamps are readings of the millisecond     *)
(* wall clock, kept as integers (toISOString keeps the milliseconds and   *)
(* their order); a calendar date is its YYYY-MM-DD string.                 *)
(***************************************************************************)
EXTENDS Integers, Sequences, FiniteSets, TLC

VARIABLES
    fileExists,    \* data/tasks.json exists (readTasks returns null if not)
    tasksFile,     \* the array persisted in data/tasks.json
    activityFile,  \* the object persisted in data/activity.json: key -> entries
    now,           \* the last reading of the wall clock (ms)
    diskOk,        \* per file: writeFileSync succeeds (TRUE) or throws (FALSE)
    started,       \* the app.listen callback has run
    req,           \* the request being answered
    resp,          \* the response sent for it
    issuedIds,     \* history: ids given to records since the last seeding
    prev,          \* history: both files as the last request found them
    nreq,          \* number of requests handled
    limit,         \* number of requests the run handles
    inflight,      \* update requests received and not yet handled
    answered       \* history: the in-flight updates handled, in order

vars == <<fileExists, tasksFile, activityFile, now, diskOk, started, req, resp,
          issuedIds, prev, nreq, limit, inflight, answered>>

----------------------------------------------------------------------------
\* Bounds of the model.
MaxTime == 1        \* clock readings are 0..MaxTime
MaxTasks == 3       \* create is not issued beyond this many records
MaxRequests == 2    \* requests handled in one run
RandomDayOffsets == {0, 19}  \* outcomes of Math.floor(Math.random() * 20) used

----------------------------------------------------------------------------
\* The template catalog (templates.js): boards in order, each with its
\* ordered templates t(itle), m(onth), d(uration, optional), o(wner),
\* p(riority).
DOMAIN_META ==
    [base |-> [name |-> "Base Pay"], exec |-> [name |-> "Executive"]]

BOARDS == <<
    [id |-> "b1", name |-> "Merit Cycle", domain |-> "base",
     tasks |-> << [t |-> "Review bands", m |-> 1, d |-> "2 weeks",
                   o |-> "Lead", p |-> "high"] >>],
    [id |-> "b2", name |-> "Proxy", domain |-> "exec",
     tasks |-> << [t |-> "Draft CD&A", m |-> 3,
                   o |-> "Director", p |-> "low"] >>] >>

\* new Date() read within the modelled horizon of a few milliseconds: the
\* calendar date, month and year do not change.
Year == 2026
ThisMonth == 11
Today == "2026-11-04"

----------------------------------------------------------------------------
\* Values
NaN == -1    \* parseInt of a non-numeric string: equal to no record id

NoBody == [k \in {} |-> 0]

Has(r, k) == k \in DOMAIN r

\* { ...a, ...b }
Spread(a, b) ==
    [k \in DOMAIN a \cup DOMAIN b |-> IF k \in DOMAIN b THEN b[k] ELSE a[k]]

\* body.k || dflt for a text field: undefined and "" are falsy
OrDefault(body, k, dflt) ==
    IF Has(body, k) /\ body[k] # "" THEN body[k] ELSE dflt

\* body.k || dflt for a number field: undefined and 0 are falsy
OrDefaultNum(body, k, dflt) ==
    IF Has(body, k) /\ body[k] # 0 THEN body[k] ELSE dflt

\* String(taskId) for the integer ids of the model
String(n) == ToString(n)

\* The :id path parameters that requests carry
ParamIds == {ToString(i) : i \in 1..MaxTasks} \cup {"02", "x"}

\* parseInt(req.params.id)
parseInt(s) ==
    IF s = "x" THEN NaN
    ELSE IF s = "02" THEN 2
    ELSE CHOOSE i \in 1..MaxTasks : ToString(i) = s

\* Readings of the clock by k successive new Date() calls: each is the
\* previous reading or later.  Only the order of readings matters to the
\* program, so a later reading is taken one millisecond on.
Later(t) == IF t < MaxTime THEN {t, t + 1} ELSE {t}

ClockReads(k) ==
    { ts \in [1..k -> now..MaxTime] :
        /\ k >= 1 => ts[1] \in Later(now)
        /\ \A i \in 1..(k - 1) : ts[i + 1] \in Later(ts[i]) }

----------------------------------------------------------------------------
\* Persistence helpers

\* Faulty variant: an empty persisted array reads like an absent file
readTasksEmptyIsNull == ~fileExists \/ tasksFile = <<>>

\* readTasks() returns null exactly when the file is absent
readTasksIsNull == ~fileExists

\* readTasks() || []
readTasks == IF fileExists THEN tasksFile ELSE <<>>

\* Faulty variant: the write is taken to succeed whatever the disk does
writeTasksAlways(tasks) == fileExists' = TRUE /\ tasksFile' = tasks

\* writeTasks(tasks): the whole array overwrites the file; a failed write is
\* logged and swallowed, leaving the file as it was.
writeTasks(tasks) ==
    IF diskOk.tasks
    THEN fileExists' = TRUE /\ tasksFile' = tasks
    ELSE UNCHANGED <<fileExists, tasksFile>>

\* activity[key] || []
EntriesOf(activity, key) ==
    IF key \in DOMAIN activity THEN activity[key] ELSE <<>>

\* The object addActivityEntry builds in memory: the entry pushed onto the
\* list under String(taskId), t being the clock reading.  The entry id
\* Date.now() + Math.random() is kept as its millisecond part: the random
\* fraction below one millisecond is not told apart.
\* Faulty variant: the list under the key is replaced, not extended
PushEntryOverwrite(activity, taskId, entry, t) ==
    LET key == String(taskId)
        e == Spread(Spread([id |-> t], entry), [timestamp |-> t])
    IN [k \in DOMAIN activity \cup {key} |->
            IF k = key THEN <<e>> ELSE activity[k]]

PushEntry(activity, taskId, entry, t) ==
    LET key == String(taskId)
        e == Spread(Spread([id |-> t], entry), [timestamp |-> t])
    IN [k \in DOMAIN activity \cup {key} |->
            IF k = key THEN Append(EntriesOf(activity, key), e)
            ELSE activity[k]]

\* writeActivity(activity): what the file holds afterwards
writeActivity(activity) ==
    IF diskOk.activity THEN activity ELSE activityFile

\* addActivityEntry(taskId, entry) run on a file holding `file`: the file
\* afterwards (readActivity, push, writeActivity).
addActivityEntry(file, taskId, entry, t) ==
    IF diskOk.activity THEN PushEntry(file, taskId, entry, t) ELSE file

----------------------------------------------------------------------------
\* Seeding

Pad2(n) == IF n < 10 THEN "0" \o ToString(n) ELSE ToString(n)

\* new Date(year, m - 1, day).toISOString().split('T')[0], for a server
\* whose local time is UTC.
DateString(y, m, day) == ToString(y) \o "-" \o Pad2(m) \o "-" \o Pad2(day)

\* The record pushed for template tmpl of board: id is the running counter,
\* off the random offset Math.floor(Math.random() * 20), t the batch time.
SeedRecord(id, board, tmpl, off, t) ==
    [id |-> id,
     title |-> tmpl.t,
     month |-> tmpl.m,
     duration |-> IF Has(tmpl, "d") THEN tmpl.d ELSE "1 week",
     owner |-> tmpl.o,
     priority |-> tmpl.p,
     status |-> "not_started",
     dueDate |-> DateString(Year, tmpl.m, 5 + off),
     boardId |-> board.id,
     boardName |-> board.name,
     domainId |-> board.domain,
     domainName |-> DOMAIN_META[board.domain].name,
     notes |-> "",
     createdAt |-> t,
     updatedAt |-> t]

\* BOARDS.forEach(board => board.tasks.forEach(tmpl => ...)) from board b,
\* template k on, with the counter at id and `tasks` pushed so far.
RECURSIVE SeedFrom(_, _, _, _, _, _)
SeedFrom(b, k, id, tasks, offs, t) ==
    IF b > Len(BOARDS) THEN tasks
    ELSE IF k > Len(BOARDS[b].tasks)
         THEN SeedFrom(b + 1, 1, id, tasks, offs, t)
    ELSE SeedFrom(b, k + 1, id + 1,
            Append(tasks, SeedRecord(id, BOARDS[b], BOARDS[b].tasks[k],
                                     offs[Len(tasks) + 1], t)),
            offs, t)

\* BOARDS.reduce((sum, b) => sum + b.tasks.length, 0)
RECURSIVE TemplatesFrom(_)
TemplatesFrom(b) ==
    IF b > Len(BOARDS) THEN 0 ELSE Len(BOARDS[b].tasks) + TemplatesFrom(b + 1)

totalTemplates == TemplatesFrom(1)

\* Faulty variant: the id counter starts at 0
seedTasksFromZero(offs, t) == SeedFrom(1, 1, 0, <<>>, offs, t)

\* The array seedTasks() builds
seedTasks(offs, t) == SeedFrom(1, 1, 1, <<>>, offs, t)

\* The random offsets one seeding draws, one per template
SeedOffsets == [1..totalTemplates -> RandomDayOffsets]

----------------------------------------------------------------------------
\* Task store helpers

\* tasks.findIndex(t => t.id === id), 1-based; 0 when there is none (-1)
findIndex(tasks, id) ==
    IF \E i \in 1..Len(tasks) : tasks[i].id = id
    THEN CHOOSE i \in 1..Len(tasks) :
            /\ tasks[i].id = id
            /\ \A j \in 1..(i - 1) : tasks[j].id # id
    ELSE 0

\* tasks.reduce((max, t) => Math.max(max, t.id), 0)
RECURSIVE MaxIdFrom(_, _, _)
MaxIdFrom(tasks, i, max) ==
    IF i > Len(tasks) THEN max
    ELSE MaxIdFrom(tasks, i + 1, IF tasks[i].id > max THEN tasks[i].id ELSE max)

\* Faulty variant: the next id is taken from the number of records
maxIdByLength(tasks) == Len(tasks)

maxId(tasks) == MaxIdFrom(tasks, 1, 0)

\* The record POST /api/tasks builds from the body
newTask(tasks, body, t) ==
    [id |-> maxId(tasks) + 1,
     title |-> OrDefault(body, "title", "New Task"),
     month |-> OrDefaultNum(body, "month", ThisMonth),
     duration |-> OrDefault(body, "duration", "1 week"),
     owner |-> OrDefault(body, "owner", "Analyst"),
     priority |-> OrDefault(body, "priority", "medium"),
     status |-> OrDefault(body, "status", "not_started"),
     dueDate |-> OrDefault(body, "dueDate", Today),
     boardId |-> OrDefault(body, "boardId", ""),
     boardName |-> OrDefault(body, "boardName", ""),
     domainId |-> OrDefault(body, "domainId", ""),
     domainName |-> OrDefault(body, "domainName", ""),
     notes |-> OrDefault(body, "notes", ""),
     createdAt |-> t,
     updatedAt |-> t]

\* Faulty variant: the body replaces the stored record instead of being
\* spread over it
updatedReplaces(old, body, id, t) ==
    Spread(body, [id |-> id, createdAt |-> old.createdAt, updatedAt |-> t])

\* Faulty variant: id and createdAt are not re-asserted after the spread
updatedUnpinned(old, body, id, t) ==
    Spread(Spread(old, body), [updatedAt |-> t])

\* Faulty variant: updatedAt is set before the body is spread over it
updatedKeepsBodyTime(old, body, id, t) ==
    Spread(Spread(Spread(old, [updatedAt |-> t]), body),
           [id |-> id, createdAt |-> old.createdAt])

\* { ...tasks[idx], ...req.body, id: id, createdAt: ..., updatedAt: ... }
updated(old, body, id, t) ==
    Spread(Spread(old, body),
           [id |-> id, createdAt |-> old.createdAt, updatedAt |-> t])

\* tasks.splice(idx, 1)
splice(tasks, idx) ==
    [i \in 1..(Len(tasks) - 1) |-> IF i < idx THEN tasks[i] ELSE tasks[i + 1]]

\* Faulty variant: the tracked fields are walked in the reverse order
trackedFieldsReversed == <<"title", "dueDate", "priority", "owner", "status">>

trackedFields == <<"status", "owner", "priority", "dueDate", "title">>

\* Faulty variant: a supplied field is logged without comparing values
fieldSupplied(body, oldTask, field) == Has(body, field)

\* req.body[field] !== undefined && req.body[field] !== oldTask[field]
fieldChanged(body, oldTask, field) ==
    Has(body, field) /\ body[field] # oldTask[field]

\* The tracked fields for which the forEach calls addActivityEntry, in order
changedFields(body, oldTask) ==
    SelectSeq(trackedFields, LAMBDA f : fieldChanged(body, oldTask, f))

\* req.body._actor || 'User'
actorOf(body) == OrDefault(body, "_actor", "User")

\* The entry the update handler hands to addActivityEntry for a field
fieldChangeEntry(body, oldTask, field) ==
    [type |-> "field_change",
     field |-> field,
     oldValue |-> oldTask[field],
     newValue |-> body[field],
     actor |-> actorOf(body)]

\* The activity file after the forEach has logged fields[i..], entry j
\* stamped with clock reading ts[j].
RECURSIVE logChanges(_, _, _, _, _, _, _)
logChanges(file, id, body, oldTask, fields, i, ts) ==
    IF i > Len(fields) THEN file
    ELSE logChanges(
            addActivityEntry(file, id, fieldChangeEntry(body, oldTask, fields[i]),
                             ts[i]),
            id, body, oldTask, fields, i + 1, ts)

\* The entry the comment handler hands to addActivityEntry
commentEntry(body) ==
    [type |-> "comment",
     author |-> OrDefault(body, "author", "User"),
     text |-> OrDefault(body, "text", ""),
     actor |-> OrDefault(body, "author", "User")]

\* Faulty variant: the entries are answered in stored (insertion) order
storedOrder(entries) == entries

\* entries.sort((a, b) => new Date(b.timestamp) - new Date(a.timestamp)):
\* a stable sort, latest first.
RECURSIVE sortDesc(_)
InsertDesc(sorted, e) ==
    LET before == SelectSeq(sorted, LAMBDA x : x.timestamp >= e.timestamp)
        after == SelectSeq(sorted, LAMBDA x : x.timestamp < e.timestamp)
    IN before \o <<e>> \o after

sortDesc(entries) ==
    IF entries = <<>> THEN <<>>
    ELSE InsertDesc(sortDesc(SubSeq(entries, 1, Len(entries) - 1)),
                    entries[Len(entries)])

----------------------------------------------------------------------------
\* Requests

\* Bodies of POST /api/tasks
CreateBodies ==
    { NoBody,
      [title |-> "Review bands", priority |-> "high"],
      [title |-> "", month |-> 0, owner |-> "Lead"] }

\* Bodies of PUT /api/tasks/:id
UpdateBodies ==
    { [status |-> "in_progress", notes |-> "draft", _actor |-> "Jane"],
      [status |-> "not_started", dueDate |-> "2026-12-31", notes |-> "memo",
       _actor |-> "Jane"],
      [id |-> 1, createdAt |-> -5, updatedAt |-> -5, notes |-> "memo",
       priority |-> "high"],
      [owner |-> "Lead", title |-> "Renamed", _actor |-> ""] }

\* Bodies of POST /api/tasks/:id/comments
CommentBodies == { NoBody, [author |-> "Jane", text |-> "ok"] }

Request(op, id, body) == [op |-> op, id |-> id, body |-> body]

Response(op, status, body) == [op |-> op, status |-> status, body |-> body]

NotFound(op) == Response(op, 404, <<[error |-> "Task not found"]>>)

Ids(tasks) == {tasks[i].id : i \in 1..Len(tasks)}

\* Bookkeeping of a request: the files as it found them, and the count
Handled ==
    /\ prev' = [exists |-> fileExists, tasks |-> tasksFile,
                activity |-> activityFile, issued |-> issuedIds,
                disk |-> diskOk]
    /\ nreq' = nreq + 1

Serving == started /\ nreq < limit

----------------------------------------------------------------------------
\* The state before the server starts, for a run that handles n requests
InitRun(n) ==
    /\ fileExists = FALSE
    /\ tasksFile = <<>>
    /\ activityFile = [k \in {} |-> <<>>]
    /\ now = 0
    /\ diskOk = [tasks |-> TRUE, activity |-> TRUE]
    /\ started = FALSE
    /\ req = Request("none", "", NoBody)
    /\ resp = Response("none", 0, <<>>)
    /\ issuedIds = {}
    /\ prev = [exists |-> FALSE, tasks |-> <<>>,
               activity |-> [k \in {} |-> <<>>], issued |-> {},
               disk |-> [tasks |-> TRUE, activity |-> TRUE]]
    /\ nreq = 0
    /\ limit = n
    /\ inflight = {}
    /\ answered = <<>>

Init == InitRun(MaxRequests)

\* The app.listen callback: seeds on the first run.  Its reading of the
\* clock is the origin of the model's time.
Startup ==
    /\ ~started
    /\ started' = TRUE
    /\ IF readTasksIsNull
       THEN \E offs \in SeedOffsets :
               LET tasks == seedTasks(offs, now)
               IN /\ writeTasks(tasks)
                  /\ issuedIds' = Ids(tasks)
       ELSE UNCHANGED <<fileExists, tasksFile, issuedIds>>
    /\ req' = Request("startup", "", NoBody)
    /\ resp' = Response("startup", 0, <<>>)
    /\ UNCHANGED <<activityFile, now, diskOk, prev, nreq, limit, inflight,
                   answered>>

\* GET /api/tasks
GetTasks ==
    /\ Serving
    /\ IF readTasksIsNull
       THEN \E ts \in ClockReads(1), offs \in SeedOffsets :
               LET tasks == seedTasks(offs, ts[1])
               IN /\ writeTasks(tasks)
                  /\ now' = ts[1]
                  /\ issuedIds' = Ids(tasks)
                  /\ resp' = Response("list", 200, tasks)
       ELSE /\ resp' = Response("list", 200, tasksFile)
            /\ UNCHANGED <<fileExists, tasksFile, now, issuedIds>>
    /\ req' = Request("list", "", NoBody)
    /\ Handled
    /\ UNCHANGED <<activityFile, diskOk, started, limit, inflight, answered>>

\* POST /api/tasks
PostTask(body) ==
    /\ Serving
    /\ Len(readTasks) < MaxTasks
    /\ \E ts \in ClockReads(1) :
          LET tasks == readTasks
              new == newTask(tasks, body, ts[1])
          IN /\ writeTasks(Append(tasks, new))
             /\ now' = ts[1]
             /\ issuedIds' = issuedIds \cup {new.id}
             /\ resp' = Response("create", 201, <<new>>)
    /\ req' = Request("create", "", body)
    /\ Handled
    /\ UNCHANGED <<activityFile, diskOk, started, limit, inflight, answered>>

\* PUT /api/tasks/:id
PutTask(idParam, body) ==
    /\ Serving
    /\ req' = Request("update", idParam, body)
    /\ Handled
    /\ LET tasks == readTasks
           id == parseInt(idParam)
           idx == findIndex(tasks, id)
       IN IF idx = 0
          THEN /\ resp' = NotFound("update")
               /\ UNCHANGED <<fileExists, tasksFile, activityFile, now>>
          ELSE LET oldTask == tasks[idx]
                   fields == changedFields(body, oldTask)
                   n == Len(fields)
               IN \E ts \in ClockReads(n + 1) :
                     LET new == updated(tasks[idx], body, id, ts[1])
                     IN /\ writeTasks([tasks EXCEPT ![idx] = new])
                        /\ activityFile' =
                              logChanges(activityFile, id, body, oldTask, fields,
                                         1, [i \in 1..n |-> ts[i + 1]])
                        /\ now' = ts[n + 1]
                        /\ resp' = Response("update", 200, <<new>>)
    /\ UNCHANGED <<diskOk, started, issuedIds, limit>>

\* Faulty variant: no idx === -1 check, so splice(-1, 1) drops the last record
DeleteTaskUnchecked(idParam) ==
    /\ Serving
    /\ req' = Request("delete", idParam, NoBody)
    /\ Handled
    /\ LET tasks == readTasks
           idx == findIndex(tasks, parseInt(idParam))
       IN /\ writeTasks(IF idx = 0 /\ tasks # <<>>
                        THEN splice(tasks, Len(tasks))
                        ELSE splice(tasks, idx))
          /\ resp' = Response("delete", 204, <<>>)
    /\ UNCHANGED <<activityFile, now, diskOk, started, limit, inflight,
                   answered, issuedIds>>

\* DELETE /api/tasks/:id
DeleteTask(idParam) ==
    /\ Serving
    /\ req' = Request("delete", idParam, NoBody)
    /\ Handled
    /\ LET tasks == readTasks
           id == parseInt(idParam)
           idx == findIndex(tasks, id)
       IN IF idx = 0
          THEN /\ resp' = NotFound("delete")
               /\ UNCHANGED <<fileExists, tasksFile>>
          ELSE /\ writeTasks(splice(tasks, idx))
               /\ resp' = Response("delete", 204, <<>>)
    /\ UNCHANGED <<activityFile, now, diskOk, started, limit, inflight,
                   answered, issuedIds>>

\* Faulty variant: the activity file is not reset
PostSeedKeepsActivity ==
    /\ Serving
    /\ \E ts \in ClockReads(1), offs \in SeedOffsets :
          LET tasks == seedTasks(offs, ts[1])
          IN /\ writeTasks(tasks)
             /\ now' = ts[1]
             /\ issuedIds' = Ids(tasks)
             /\ resp' = Response("seed", 200,
                    <<[count |-> Len(tasks), boards |-> Len(BOARDS)]>>)
    /\ req' = Request("seed", "", NoBody)
    /\ Handled
    /\ UNCHANGED <<activityFile, diskOk, started, limit, inflight, answered>>

\* POST /api/seed
PostSeed ==
    /\ Serving
    /\ \E ts \in ClockReads(1), offs \in SeedOffsets :
          LET tasks == seedTasks(offs, ts[1])
          IN /\ writeTasks(tasks)
             /\ now' = ts[1]
             /\ issuedIds' = Ids(tasks)
             /\ resp' = Response("seed", 200,
                    <<[count |-> Len(tasks), boards |-> Len(BOARDS)]>>)
    /\ activityFile' = writeActivity([k \in {} |-> <<>>])
    /\ req' = Request("seed", "", NoBody)
    /\ Handled
    /\ UNCHANGED <<diskOk, started, limit, inflight, answered>>

\* GET /api/tasks/:id/activity
GetActivity(idParam) ==
    /\ Serving
    /\ resp' = Response("activity", 200,
                        sortDesc(EntriesOf(activityFile, idParam)))
    /\ req' = Request("activity", idParam, NoBody)
    /\ Handled
    /\ UNCHANGED <<fileExists, tasksFile, activityFile, now, diskOk, started,
                   limit, inflight, answered, issuedIds>>

\* Faulty variant: the task is not looked up before the entry is added
PostCommentUnchecked(idParam, body) ==
    /\ Serving
    /\ req' = Request("comment", idParam, body)
    /\ Handled
    /\ parseInt(idParam) # NaN
    /\ \E ts \in ClockReads(1) :
          LET id == parseInt(idParam)
              entries == PushEntry(activityFile, id, commentEntry(body),
                                   ts[1])[String(id)]
          IN /\ activityFile' =
                  addActivityEntry(activityFile, id, commentEntry(body), ts[1])
             /\ now' = ts[1]
             /\ resp' = Response("comment", 201, <<entries[Len(entries)]>>)
    /\ UNCHANGED <<fileExists, tasksFile, diskOk, started, limit, inflight,
                   answered, issuedIds>>

\* POST /api/tasks/:id/comments
PostComment(idParam, body) ==
    /\ Serving
    /\ req' = Request("comment", idParam, body)
    /\ Handled
    /\ LET tasks == readTasks
           id == parseInt(idParam)
       IN IF findIndex(tasks, id) = 0
          THEN /\ resp' = NotFound("comment")
               /\ UNCHANGED <<activityFile, now>>
          ELSE \E ts \in ClockReads(1) :
                  LET entries == PushEntry(activityFile, id, commentEntry(body),
                                           ts[1])[String(id)]
                  IN /\ activityFile' =
                          addActivityEntry(activityFile, id, commentEntry(body),
                                           ts[1])
                     /\ now' = ts[1]
                     /\ resp' = Response("comment", 201,
                                         <<entries[Len(entries)]>>)
    /\ UNCHANGED <<fileExists, tasksFile, diskOk, started, limit, inflight,
                   answered, issuedIds>>

Next ==
    \/ Startup
    \/ GetTasks
    \/ \E body \in CreateBodies : PostTask(body)
    \/ \E idParam \in ParamIds, body \in UpdateBodies :
          PutTask(idParam, body) /\ UNCHANGED <<inflight, answered>>
    \/ \E idParam \in ParamIds : DeleteTask(idParam)
    \/ PostSeed
    \/ \E idParam \in ParamIds : GetActivity(idParam)
    \/ \E idParam \in ParamIds, body \in CommentBodies :
          PostComment(idParam, body)

Spec == Init /\ [][Next]_vars

\* Longer runs over fewer requests: the ids the seeding gives out, one status
\* update, one comment, a create with an empty body.
SeededIds == {String(i) : i \in 1..totalTemplates}

StatusUpdate == [status |-> "in_progress", _actor |-> "Jane"]

Comment == [author |-> "Jane", text |-> "ok"]

InitDeep == InitRun(MaxRequests + 1)

NextDeep ==
    \/ Startup
    \/ GetTasks
    \/ PostTask(NoBody)
    \/ \E idParam \in SeededIds :
          PutTask(idParam, StatusUpdate) /\ UNCHANGED <<inflight, answered>>
    \/ \E idParam \in SeededIds : DeleteTask(idParam)
    \/ \E idParam \in ParamIds : GetActivity(idParam)
    \/ \E idParam \in SeededIds : PostComment(idParam, Comment)

SpecDeep == InitDeep /\ [][NextDeep]_vars

\* The environment: one of the two files starts or stops accepting writes
\* (writeFileSync throws).  The condition of the disk settles before the
\* first request is handled.
DiskChanges ==
    /\ nreq = 0
    /\ \E file \in {"tasks", "activity"} :
          diskOk' = [diskOk EXCEPT ![file] = ~diskOk[file]]
    /\ UNCHANGED <<fileExists, tasksFile, activityFile, now, started, req, resp,
                   issuedIds, prev, nreq, limit, inflight, answered>>

NextFault == NextDeep \/ PostSeed \/ DiskChanges

\* The longer runs on a disk whose writes may fail
SpecFault == InitDeep /\ [][NextFault]_vars

\* Concurrent update requests.  Express receives a request and parses its
\* body asynchronously (express.json), so several requests can be in flight;
\* the route handler of each then runs to completion, in any order.  A
\* request in flight is kept with the collection as it was on arrival.
Receive(idParam, body) ==
    /\ started
    /\ Cardinality(inflight) + nreq < limit
    /\ inflight' = inflight \cup
                       {[id |-> idParam, body |-> body, seen |-> readTasks]}
    /\ UNCHANGED <<fileExists, tasksFile, activityFile, now, diskOk, started,
                   req, resp, issuedIds, prev, nreq, limit, answered>>

\* The record of a handled request: the task addressed, the body, the
\* status answered, the collection the handler found, and whether another
\* request was in flight meanwhile
Answer(r, status) ==
    [id |-> parseInt(r.id), body |-> r.body, status |-> status,
     found |-> readTasks, overlap |-> inflight \ {r} # {}]

\* Faulty variant: the handler applies the body to the collection as it was
\* when the request arrived and writes that back
HandleUpdateStale(r) ==
    /\ r \in inflight
    /\ Serving
    /\ req' = Request("update", r.id, r.body)
    /\ Handled
    /\ LET id == parseInt(r.id)
           idx == findIndex(r.seen, id)
       IN /\ idx # 0
          /\ \E ts \in ClockReads(1) :
                LET new == updated(r.seen[idx], r.body, id, ts[1])
                IN /\ writeTasks([r.seen EXCEPT ![idx] = new])
                   /\ now' = ts[1]
                   /\ resp' = Response("update", 200, <<new>>)
    /\ inflight' = inflight \ {r}
    /\ answered' = Append(answered, Answer(r, 200))
    /\ UNCHANGED <<activityFile, diskOk, started, issuedIds, limit>>

\* The PUT handler runs for a request in flight
HandleUpdate(r) ==
    /\ r \in inflight
    /\ PutTask(r.id, r.body)
    /\ inflight' = inflight \ {r}
    /\ answered' = Append(answered, Answer(r, resp'.status))

NextRace ==
    \/ Startup
    \/ \E idParam \in SeededIds, body \in UpdateBodies : Receive(idParam, body)
    \/ \E r \in inflight : HandleUpdate(r)

SpecRace == Init /\ [][NextRace]_vars

----------------------------------------------------------------------------
\* Vocabulary of the properties: the last request, its answer and the files
\* as the request found them.

Updated == resp.op = "update" /\ resp.status = 200

\* The record the answer carries (create, update) or the entry (comment)
Returned == resp.body[1]

\* The id the request addresses
TargetId == parseInt(req.id)

\* Positions in the store, as the request found it, of records with that id
TargetPositions == {i \in 1..Len(prev.tasks) : prev.tasks[i].id = TargetId}

\* The entries a file holds for a task id
LogOf(activity, id) == EntriesOf(activity, ToString(id))

\* The entries the last request added to the log of the addressed task
NewEntries ==
    SubSeq(LogOf(activityFile, TargetId),
           Len(LogOf(prev.activity, TargetId)) + 1,
           Len(LogOf(activityFile, TargetId)))

IsPrefix(s, t) == Len(s) <= Len(t) /\ SubSeq(t, 1, Len(s)) = s

TrackedSet == {"status", "owner", "priority", "dueDate", "title"}

----------------------------------------------------------------------------
\* C1: an update of an existing task returns and stores a record with the id
\* and the createdAt of the record before the update, whatever the body
\* supplies for them.
C1_IdentityPreserved ==
    Updated =>
        \A i \in TargetPositions :
            /\ Returned.id = prev.tasks[i].id
            /\ Returned.createdAt = prev.tasks[i].createdAt
            /\ tasksFile[i].id = prev.tasks[i].id
            /\ tasksFile[i].createdAt = prev.tasks[i].createdAt

\* An update whose body carries another id and another createdAt
C1_Witness ==
    /\ Updated
    /\ TargetPositions # {}
    /\ Has(req.body, "id") /\ req.body.id # Returned.id
    /\ Has(req.body, "createdAt") /\ req.body.createdAt # Returned.createdAt

\* C2: no two records of the task collection have the same id.
C2_UniqueIds ==
    \A i, j \in 1..Len(tasksFile) :
        i # j => tasksFile[i].id # tasksFile[j].id

\* A create after a delete, and an update that supplied a stored id
C2_Witness ==
    \/ /\ resp.op = "create"
       /\ Len(prev.tasks) < totalTemplates
       /\ Len(tasksFile) = Len(prev.tasks) + 1
    \/ /\ Updated
       /\ Has(req.body, "id")
       /\ \E i \in 1..Len(tasksFile) :
             tasksFile[i].id = req.body.id /\ req.body.id # TargetId

\* C3: every id handed out by create is greater than every id given to a
\* record since the last seeding, deleted records included.
C3_IdsMonotonic ==
    resp.op = "create" => \A i \in prev.issued : Returned.id > i

\* C4: an update of an existing task appends, for each tracked field, one
\* field_change entry (field, old value, supplied value, actor tag or
\* "User" when there is no tag or an empty one) if the body supplies a value
\* other than the current one, and none otherwise; it appends nothing else,
\* so nothing for an untracked field.
C4_ExpectedActor ==
    IF Has(req.body, "_actor") /\ req.body._actor # ""
    THEN req.body._actor ELSE "User"

C4_ChangeLogged ==
    Updated =>
        \A i \in TargetPositions :
            LET old == prev.tasks[i]
                new == NewEntries
                at(f) == {j \in 1..Len(new) :
                            new[j].type = "field_change" /\ new[j].field = f}
            IN /\ \A f \in TrackedSet :
                     IF Has(req.body, f) /\ req.body[f] # old[f]
                     THEN /\ Cardinality(at(f)) = 1
                          /\ \A j \in at(f) :
                                /\ new[j].oldValue = old[f]
                                /\ new[j].newValue = req.body[f]
                                /\ new[j].actor = C4_ExpectedActor
                     ELSE at(f) = {}
               /\ \A j \in 1..Len(new) :
                     new[j].type = "field_change" /\ new[j].field \in TrackedSet
               /\ IsPrefix(LogOf(prev.activity, TargetId),
                           LogOf(activityFile, TargetId))

\* An update by "Jane" that supplies the current status, another due date
\* and other notes: one entry, for the due date
C4_Witness ==
    /\ Updated
    /\ \E i \in TargetPositions :
          /\ Has(req.body, "notes") /\ req.body.notes # prev.tasks[i].notes
          /\ Has(req.body, "status")
          /\ req.body.status = prev.tasks[i].status
          /\ Has(req.body, "dueDate")
          /\ req.body.dueDate # prev.tasks[i].dueDate
    /\ Len(NewEntries) = 1
    /\ NewEntries[1].field = "dueDate"
    /\ NewEntries[1].actor = "Jane"

\* C5: an update of an existing task returns a record whose updatedAt is
\* strictly later than the updatedAt of the record before the update.
C5_UpdatedAtStrictlyLater ==
    Updated =>
        \A i \in TargetPositions :
            Returned.updatedAt > prev.tasks[i].updatedAt

\* C5 as amended: the updatedAt of the result is never earlier than the one
\* before the update (it is the same when both are stamped within one
\* millisecond).
C5_UpdatedAtNotEarlier ==
    Updated =>
        \A i \in TargetPositions :
            /\ Returned.updatedAt >= prev.tasks[i].updatedAt
            /\ tasksFile[i].updatedAt >= prev.tasks[i].updatedAt

\* An update stamped in the millisecond of the record's previous stamp
C5_Witness ==
    /\ Updated
    /\ \E i \in TargetPositions :
          Returned.updatedAt = prev.tasks[i].updatedAt

\* C6: an update or delete whose id matches no record answers 404 and leaves
\* the task collection and the activity log as they were.
C6_NotFoundNoEffect ==
    (resp.op \in {"update", "delete"} /\ TargetPositions = {}) =>
        /\ resp.status = 404
        /\ fileExists = prev.exists
        /\ tasksFile = prev.tasks
        /\ activityFile = prev.activity

\* A delete of an id that is not in a non-empty store
C6_Witness ==
    /\ resp.op = "delete"
    /\ resp.status = 404
    /\ prev.tasks # <<>>

\* C7: a comment on an id that is not in the store answers 404 and appends
\* nothing; a comment on a stored task appends exactly one comment entry
\* under that id and returns it.
C7_CommentNeedsLiveTask ==
    resp.op = "comment" =>
        IF TargetPositions = {}
        THEN /\ resp.status = 404
             /\ activityFile = prev.activity
        ELSE /\ resp.status = 201
             /\ Returned.type = "comment"
             /\ LogOf(activityFile, TargetId) =
                    Append(LogOf(prev.activity, TargetId), Returned)
             /\ \A k \in DOMAIN activityFile \ {ToString(TargetId)} :
                    k \in DOMAIN prev.activity
                    /\ activityFile[k] = prev.activity[k]

\* A comment refused for a task that was created and then deleted
C7_Witness ==
    /\ resp.op = "comment"
    /\ resp.status = 404
    /\ TargetId \in prev.issued
    /\ TargetPositions = {}

\* C8: every request other than a reset leaves each entry already in the
\* activity log in place and unchanged; deleting a task keeps its entries.
C8_AppendOnly ==
    resp.op # "seed" =>
        \A k \in DOMAIN prev.activity :
            /\ k \in DOMAIN activityFile
            /\ IsPrefix(prev.activity[k], activityFile[k])

\* A task deleted while the log holds entries for it
C8_Witness ==
    /\ resp.op = "delete"
    /\ resp.status = 204
    /\ LogOf(activityFile, TargetId) # <<>>

\* C9: a reset leaves exactly one record per template of the catalog, with
\* ids 1..N in catalog order (boards outer, templates inner), whatever the
\* store held, and reports N and the number of boards.
CatalogPositions ==
    UNION {{<<b, k>> : k \in 1..Len(BOARDS[b].tasks)} : b \in 1..Len(BOARDS)}

CatalogRank(b, k) ==
    Cardinality({p \in CatalogPositions :
                    p[1] < b \/ (p[1] = b /\ p[2] <= k)})

C10_ResetClearsActivity ==
    resp.op = "seed" =>
        \A idParam \in ParamIds :
            sortDesc(EntriesOf(activityFile, idParam)) = <<>>

\* A reset of a log that held field-change and comment entries
C10_Witness ==
    /\ resp.op = "seed"
    /\ \E k \in DOMAIN prev.activity : prev.activity[k] # <<>>

\* Number of occurrences of an entry in a sequence
Count(entries, e) == Cardinality({i \in DOMAIN entries : entries[i] = e})

\* C11: listing the activity of a task answers exactly the entries stored
\* under the id of the path (none if there are none), each as often as it is
\* stored, latest timestamp first, whatever the order in which comments and
\* field changes were appended; a path that is the decimal form of a task id
\* gets the entries that updates and comments appended for that task.
C11_ListedLatestFirst ==
    resp.op = "activity" =>
        LET stored == EntriesOf(prev.activity, req.id)
            listed == resp.body
        IN /\ resp.status = 200
           /\ Len(listed) = Len(stored)
           /\ \A i \in DOMAIN stored :
                 Count(listed, stored[i]) = Count(stored, stored[i])
           /\ \A i, j \in DOMAIN listed :
                 i < j => listed[i].timestamp >= listed[j].timestamp
           /\ String(TargetId) = req.id =>
                 stored = LogOf(prev.activity, TargetId)
           /\ activityFile = prev.activity

\* A listing of a field change and a later comment, or of a comment and a
\* later field change: the answer's order is not the stored order
C11_Witness ==
    /\ resp.op = "activity"
    /\ resp.body # EntriesOf(prev.activity, req.id)
    /\ \E i, j \in DOMAIN resp.body :
          resp.body[i].type = "comment" /\ resp.body[j].type = "field_change"

\* The defaults of the data model for the fields a create request may carry
CreateDefaults ==
    [title |-> "New Task", month |-> ThisMonth, duration |-> "1 week",
     owner |-> "Analyst", priority |-> "medium", status |-> "not_started",
     dueDate |-> Today, boardId |-> "", boardName |-> "", domainId |-> "",
     domainName |-> "", notes |-> ""]

\* C12: the record a create returns and stores holds, for each task field,
\* the value the request supplies if the request carries the field and the
\* field's default only if the request omits it, and its createdAt equals its
\* updatedAt.
C12_DefaultOnlyWhenOmitted ==
    resp.op = "create" =>
        /\ resp.status = 201
        /\ \A f \in DOMAIN CreateDefaults :
              /\ Has(Returned, f)
              /\ Returned[f] = IF Has(req.body, f) THEN req.body[f]
                               ELSE CreateDefaults[f]
        /\ Returned.createdAt = Returned.updatedAt
        /\ diskOk.tasks => tasksFile[Len(tasksFile)] = Returned

C13_WitnessSeeded ==
    /\ resp.op = "list"
    /\ ~prev.exists
    /\ fileExists /\ Len(tasksFile) = totalTemplates

\* The place of each tracked field in the order the data model fixes
C14_Rank ==
    [status |-> 1, owner |-> 2, priority |-> 3, dueDate |-> 4, title |-> 5]

\* C14: the field_change entries one update appends are stored in the order
\* status, owner, priority, dueDate, title of their fields, and there are as
\* many of them as tracked fields that the request supplies with a value
\* other than the stored one.
C14_FixedFieldOrder ==
    Updated =>
        \A p \in TargetPositions :
            LET old == prev.tasks[p]
                differing == {f \in TrackedSet :
                                 /\ Has(req.body, f)
                                 /\ ~Has(old, f) \/ req.body[f] # old[f]}
            IN /\ Len(NewEntries) = Cardinality(differing)
               /\ \A i \in DOMAIN NewEntries :
                     /\ NewEntries[i].type = "field_change"
                     /\ NewEntries[i].field \in differing
               /\ \A i, j \in DOMAIN NewEntries :
                     i < j => C14_Rank[NewEntries[i].field]
                                  < C14_Rank[NewEntries[j].field]

\* An update that changed two tracked fields
C14_Witness ==
    /\ Updated
    /\ TargetPositions # {}
    /\ Len(NewEntries) >= 2
    /\ NewEntries[1].field # NewEntries[2].field

\* The fields an update sets itself, whatever the request supplies for them
PinnedFields == {"id", "createdAt", "updatedAt"}

\* C15: a successful update of a task leaves the number and order of the
\* stored records and every other record as they were; in the updated record
\* every field the request does not supply, except updatedAt, keeps its
\* value, and every field the request supplies, except id, createdAt and
\* updatedAt, has the supplied value; the answer is the stored record.
C15_ShallowMergeFrame ==
    Updated =>
        \A p \in TargetPositions :
            LET old == prev.tasks[p]
                new == tasksFile[p]
            IN /\ Len(tasksFile) = Len(prev.tasks)
               /\ \A i \in DOMAIN tasksFile :
                     i # p => tasksFile[i] = prev.tasks[i]
               /\ \A f \in (DOMAIN old \ DOMAIN req.body) \ {"updatedAt"} :
                     Has(new, f) /\ new[f] = old[f]
               /\ \A f \in DOMAIN req.body \ PinnedFields :
                     Has(new, f) /\ new[f] = req.body[f]
               /\ Returned = new

\* An update of one of several records that supplies some fields, leaves
\* others out, and changes the record
C15_Witness ==
    /\ Updated
    /\ Len(tasksFile) >= 2
    /\ \E p \in TargetPositions :
          /\ DOMAIN req.body \ PinnedFields # {}
          /\ (DOMAIN prev.tasks[p] \ DOMAIN req.body) \ {"updatedAt"} # {}
          /\ \E f \in DOMAIN req.body \ PinnedFields :
                ~Has(prev.tasks[p], f) \/ prev.tasks[p][f] # req.body[f]

\* The status with which each mutating operation reports success
SuccessStatus == [create |-> 201, update |-> 200, delete |-> 204, seed |-> 200]

\* The collection a handler works on when it finds the files as in prev
PrevTasks == IF prev.exists THEN prev.tasks ELSE <<>>

\* C16: when the write of the task collection fails during a create, an
\* update, a delete or a reset, the operation still answers with its success
\* status and the result it computed in memory, and the persisted collection
\* is what it was before the operation; listing the tasks answers the
\* persisted collection, so it does not show the change that was reported.
C16_WriteFailureSwallowed ==
    /\ ( /\ resp.op \in DOMAIN SuccessStatus
         /\ resp.status # 404
         /\ ~prev.disk.tasks ) =>
          /\ resp.status = SuccessStatus[resp.op]
          /\ fileExists = prev.exists
          /\ tasksFile = prev.tasks
          /\ resp.op = "create" =>
                /\ Returned.id \notin Ids(PrevTasks)
                /\ Returned.title = "New Task"
          /\ resp.op = "update" =>
                /\ Returned.id = TargetId
                /\ \A f \in DOMAIN req.body \ PinnedFields :
                      Returned[f] = req.body[f]
          /\ resp.op = "seed" => Returned.count = totalTemplates
    /\ (resp.op = "list" /\ prev.exists) => resp.body = prev.tasks

\* A create, an update of a record to a new status, a delete or a reset
\* that answered success while the write of the collection failed
C16_Witness ==
    /\ ~prev.disk.tasks
    /\ prev.exists
    /\ tasksFile = prev.tasks
    /\ \/ resp.op = "create" /\ resp.status = 201
       \/ Updated /\ \E p \in TargetPositions :
                        prev.tasks[p].status # Returned.status
       \/ resp.op = "delete" /\ resp.status = 204
       \/ resp.op = "seed" /\ resp.status = 200

\* The stored records of a task id
StoredOf(id) == {p \in DOMAIN tasksFile : tasksFile[p].id = id}

\* The handled updates of the task of answered[k] that came after it,
\* succeeded and supply field f
LaterWriters(k, f) ==
    {j \in DOMAIN answered :
        /\ j > k
        /\ answered[j].id = answered[k].id
        /\ answered[j].status = 200
        /\ f \in DOMAIN answered[j].body}

C18_NewTaskHasNoActivity ==
    (resp.op = "create" /\ resp.status = 201) =>
        sortDesc(EntriesOf(activityFile, String(Returned.id))) = <<>>

\* C19: the activity log records no change of a tracked field that the task
\* store does not hold.  The entries an update has just appended are the
\* latest of their fields and are later than the creation of the record they
\* are about, so after every update the stored record of the addressed task
\* holds the new value of each of them.
C19_LoggedChangeStored ==
    Updated =>
        \A i \in DOMAIN NewEntries, p \in DOMAIN tasksFile :
            ( /\ NewEntries[i].type = "field_change"
              /\ tasksFile[p].id = TargetId ) =>
                tasksFile[p][NewEntries[i].field] = NewEntries[i].newValue

\* The fields of a task record in the data model
TaskFields ==
    {"id", "title", "month", "duration", "owner", "priority", "status",
     "dueDate", "boardId", "boardName", "domainId", "domainName", "notes",
     "createdAt", "updatedAt"}

\* C20: the actor tag of an update only labels the activity entries: after an
\* update that carries the tag, neither the record answered nor any stored
\* record has an _actor field, and the answered record has only the fields of
\* the data model.
C20_ActorTagNotStored ==
    (Updated /\ Has(req.body, "_actor")) =>
        /\ ~Has(Returned, "_actor")
        /\ DOMAIN Returned \subseteq TaskFields
        /\ \A i \in DOMAIN tasksFile : ~Has(tasksFile[i], "_actor")

====
